---- MODULE Spec2Model ----
(***************************************************************************)
(* Model of middleware/gatewayinfo/gatewayinfo.go: the Public middleware   *)
(* that caches public gateway information, refreshes it in the background  *)
(* and injects it into uplink and status messages.                         *)
(*                                                                         *)
(* Every method that takes p.mu runs its critical section without          *)
(* blocking inside it, so each store operation is one atomic step.  A      *)
(* fetch goroutine has two steps: the receive from p.available, and the    *)
(* return of account.FindGateway with the store write (set or setErr).     *)
(* The goroutine that HandleDisconnect starts runs unset in a step of its   *)
(* own.  Time is a clock that advances in steps; an entry carries its age,  *)
(* time.Since(lastUpdated), in place of the timestamp.                      *)
(*                                                                         *)
(* Spec is that state machine.  SpecLive adds the fairness of the timer,    *)
(* of the lookups and of the blocked receives.  SpecEnrich runs the hooks   *)
(* on every shape of cached record and message.  SpecLock takes p.mu.Lock() *)
(* and the deferred p.mu.Unlock() as steps of their own, and the return of  *)
(* FindGateway as a step before the store write.                            *)
(***************************************************************************)
EXTENDS Integers, Sequences, FiniteSets, TLC

\* ------------------------------------------------------------------ bounds
\* Gateway identifiers that appear in messages.
Ids == {"gw1", "gw2"}
\* Total number of fetch goroutines ever started (go p.fetch / HandleConnect).
MaxFetch == 3
\* Number of connection goroutines that call HandleUplink and HandleStatus.
MaxCalls == 1
\* Total number of HandleDisconnect calls.
MaxDisc == 1
\* Number of timer ticks that put a permit back.
MaxRefill == 1
\* RequestBurst is a package variable (50 by default); the model runs with a
\* small burst so that the bucket can be emptied.
RequestBurst == 2
\* The duration passed to WithExpire when expiry is enabled, in clock steps.
ExpireD == 1

\* ------------------------------------------------------------------ values
\* A nil pointer is the empty tuple, a non-nil pointer the one-element tuple.
Nil == <<>>
Ptr(v) == <<v>>
Deref(p) == p[1]

NoErr == "nil"
Errs == {"e1"}

\* account.Gateway, restricted to the fields the middleware reads.  Brand and
\* Model are *string, held as tuples of characters.
Gateway(loc, fp, brand, model, descr) ==
  [AntennaLocation |-> loc, FrequencyPlan |-> fp,
   Brand |-> brand, Model |-> model, Description |-> descr]

\* The zero value of account.Gateway.
ZeroGateway == Gateway(Nil, "", Nil, Nil, Nil)

Loc123 == [Latitude |-> 1, Longitude |-> 2, Altitude |-> 3]

GwA == Gateway(Ptr(Loc123), "EU_863_870", Ptr(<<"B">>), Ptr(<<"M">>), Ptr("descr"))
GwB == Gateway(Nil, "", Ptr(<<>>), Ptr(<<"M">>), Nil)

\* The records account.FindGateway may return.
GatewaySet == {GwA, GwB}

\* The outcomes of account.FindGateway.
Results ==
  [ok : {TRUE}, gateway : GatewaySet, err : {NoErr}] \cup
  [ok : {FALSE}, gateway : {ZeroGateway}, err : Errs]

\* The value of p.info[id] when the map has no such key.
NoEntry == [exists |-> FALSE, age |-> 0, err |-> NoErr, gateway |-> ZeroGateway]

\* &info{lastUpdated: time.Now(), err: e, gateway: g}.  The model keeps the
\* entry's age, time.Since(lastUpdated), which is 0 when lastUpdated is set.
Entry(e, g) == [exists |-> TRUE, age |-> 0, err |-> e, gateway |-> g]

Slots == 1..MaxFetch

\* The goroutines of the gateway connections that call HandleUplink and
\* HandleStatus.
Callers == 1..MaxCalls

\* p.mu unlocked, and p.mu locked by a fetch goroutine, a hook call or an
\* unset goroutine.
NoHolder == [kind |-> "none", n |-> 0, id |-> "gw1"]
Holder(kind, n, id) == [kind |-> kind, n |-> n, id |-> id]

\* A connection goroutine that is not inside a hook.
IdleCall == [pc |-> "idle", hook |-> "none", id |-> "gw1", in |-> <<>>]

\* FindGateway has not returned.
NoResult == [ok |-> FALSE, gateway |-> ZeroGateway, err |-> NoErr]

\* The last store write did not follow that of a later lookup.
NoStale == [id |-> "none", before |-> NoEntry]

\* A fetch goroutine that has not been started.
IdleFetch == [pc |-> "idle", id |-> "gw1", by |-> "none"]

VARIABLES
  info,        \* p.info
  available,   \* number of elements in the channel p.available
  expire,      \* p.expire
  fetches,     \* the fetch goroutines, in the order they were started
  nfetch,      \* number of fetch goroutines started
  unsets,      \* unsets[id]: unset goroutines of HandleDisconnect not yet run
  refills,     \* number of ticks that put a permit into p.available
  ndisc,       \* number of HandleDisconnect calls
  last,        \* the last hook call: its message before and after, what get returned
  hDisc,       \* hDisc[id]: HandleDisconnect(id) returned while p.info held a
               \* location for id, and no HandleConnect(id) since
  hRemoved,    \* hRemoved[id]: unset(id) has run and no HandleConnect(id) since
  hAttempt,    \* hAttempt[id]: a fetch of id wrote its outcome and no unset(id) ran since
  mu,          \* p.mu: the operation that holds the lock
  calls,       \* hook calls that are inside get
  ret,         \* ret[f]: what FindGateway returned to fetch goroutine f
  newer,       \* newer[f]: the fetches of the same gateway whose lookup returned
               \* after that of f, while f had not yet written
  hStale       \* the last store write, if a fetch whose lookup returned later
               \* had written before it: the gateway and the entry it replaced

\* The variables of the steps that take and release p.mu one at a time.
lockVars == <<mu, calls, ret, newer, hStale>>

vars == <<info, available, expire, fetches, nfetch, unsets, refills, ndisc, last,
          hDisc, hRemoved, hAttempt, mu, calls, ret, newer, hStale>>

\* ------------------------------------------------------------ conversions
RECURSIVE Pow2(_)
Pow2(n) == IF n = 0 THEN 1 ELSE 2 * Pow2(n - 1)

Abs(x) == IF x < 0 THEN -x ELSE x

\* Smallest e such that m < 2^(24+e): the number of low bits a float32 drops.
RECURSIVE DropBits(_, _)
DropBits(m, e) == IF m \div Pow2(e) < Pow2(24) THEN e ELSE DropBits(m, e + 1)

\* float32(x) of a whole number x: 24 significant bits, round to nearest, ties
\* to even.
Float32(x) ==
  LET m == Abs(x)
      e == DropBits(m, 0)
      u == Pow2(e)
      q == m \div u
      r == m % u
      up == (2 * r > u) \/ (2 * r = u /\ q % 2 = 1)
      v == IF up THEN (q + 1) * u ELSE q * u
  IN  IF x < 0 THEN -v ELSE v

\* int32(x): the low 32 bits, as a signed number.  The bounds are written as
\* sums so that no intermediate value leaves the range of the model checker.
MaxInt32 == (Pow2(30) - 1) + Pow2(30)
MinInt32 == (-Pow2(30)) - Pow2(30)
Int32(x) ==
  IF x >= MinInt32 /\ x <= MaxInt32 THEN x
  ELSE ((x - MinInt32) % (Pow2(16) * Pow2(16))) + MinInt32

\* &gateway.GPSMetadata{...} built from an account location.
GPSMetadata(loc) ==
  [Latitude |-> Float32(loc.Latitude), Longitude |-> Float32(loc.Longitude),
   Altitude |-> Int32(loc.Altitude)]

\* strings.Join(elems, sep), on tuples of characters.
RECURSIVE Join(_, _)
Join(elems, sep) ==
  IF Len(elems) = 0 THEN <<>>
  ELSE IF Len(elems) = 1 THEN elems[1]
  ELSE elems[1] \o sep \o Join(Tail(elems), sep)

\* ------------------------------------------------------------ the store
\* setErr as it would be if it replaced the entry as set does.
setErrReplace(inf, gatewayID, err) ==
  [inf EXCEPT ![gatewayID] = Entry(err, ZeroGateway)]

\* setErr as it would be if it left lastUpdated of an existing entry alone.
setErrKeepTime(inf, gatewayID, err) ==
  IF inf[gatewayID].exists
  THEN [inf EXCEPT ![gatewayID].err = err]
  ELSE [inf EXCEPT ![gatewayID] = Entry(err, ZeroGateway)]

\* setErr: an existing entry keeps its gateway; a new entry has the zero one.
setErr(inf, gatewayID, err) ==
  IF inf[gatewayID].exists
  THEN [inf EXCEPT ![gatewayID].age = 0, ![gatewayID].err = err]
  ELSE [inf EXCEPT ![gatewayID] = Entry(err, ZeroGateway)]

\* set as it would be if it updated an existing entry in place, as setErr does.
setInPlace(inf, gatewayID, gateway) ==
  IF inf[gatewayID].exists
  THEN [inf EXCEPT ![gatewayID].age = 0, ![gatewayID].gateway = gateway]
  ELSE [inf EXCEPT ![gatewayID] = Entry(NoErr, gateway)]

\* set: the entry is replaced.
set(inf, gatewayID, gateway) ==
  [inf EXCEPT ![gatewayID] = Entry(NoErr, gateway)]

\* get as it would be if a miss started a fetch.
getFetchOnMiss(inf, gatewayID, exp) ==
  IF ~inf[gatewayID].exists
  THEN [info |-> inf, fetch |-> TRUE, gateway |-> ZeroGateway, err |-> NoErr]
  ELSE IF exp # 0 /\ inf[gatewayID].age > exp
  THEN [info |-> [inf EXCEPT ![gatewayID].age = 0], fetch |-> TRUE,
        gateway |-> inf[gatewayID].gateway, err |-> inf[gatewayID].err]
  ELSE [info |-> inf, fetch |-> FALSE,
        gateway |-> inf[gatewayID].gateway, err |-> inf[gatewayID].err]

\* get as it would be if it compared the age with p.expire also when p.expire
\* is zero.
getNoZeroCheck(inf, gatewayID, exp) ==
  IF ~inf[gatewayID].exists
  THEN [info |-> inf, fetch |-> FALSE, gateway |-> ZeroGateway, err |-> NoErr]
  ELSE IF inf[gatewayID].age > exp
  THEN [info |-> [inf EXCEPT ![gatewayID].age = 0], fetch |-> TRUE,
        gateway |-> inf[gatewayID].gateway, err |-> inf[gatewayID].err]
  ELSE [info |-> inf, fetch |-> FALSE,
        gateway |-> inf[gatewayID].gateway, err |-> inf[gatewayID].err]

\* get: the store after the call, whether a fetch goroutine was started, and
\* the two values returned.
get(inf, gatewayID, exp) ==
  IF ~inf[gatewayID].exists
  THEN [info |-> inf, fetch |-> FALSE, gateway |-> ZeroGateway, err |-> NoErr]
  ELSE IF exp # 0 /\ inf[gatewayID].age > exp
  THEN [info |-> [inf EXCEPT ![gatewayID].age = 0], fetch |-> TRUE,
        gateway |-> inf[gatewayID].gateway, err |-> inf[gatewayID].err]
  ELSE [info |-> inf, fetch |-> FALSE,
        gateway |-> inf[gatewayID].gateway, err |-> inf[gatewayID].err]

\* unset as it would be if it cleared the entry's fields and kept the key.
unsetKeepKey(inf, gatewayID) ==
  [inf EXCEPT ![gatewayID] = [NoEntry EXCEPT !.exists = inf[gatewayID].exists]]

\* unset as it would be if it emptied the map.
unsetAll(inf, gatewayID) == [id \in Ids |-> NoEntry]

\* unset: delete(p.info, gatewayID)
unset(inf, gatewayID) == [inf EXCEPT ![gatewayID] = NoEntry]

\* The end of fetch as it would be if a failed lookup wrote nothing for a
\* gateway that has no entry.
fetchStoreSkipFirstErr(inf, gatewayID, res) ==
  IF res.err # NoErr
  THEN IF inf[gatewayID].exists THEN setErr(inf, gatewayID, res.err) ELSE inf
  ELSE set(inf, gatewayID, res.gateway)

\* The store write that ends fetch: setErr on an error, set otherwise.
fetchStore(inf, gatewayID, res) ==
  IF res.err # NoErr
  THEN setErr(inf, gatewayID, res.err)
  ELSE set(inf, gatewayID, res.gateway)

\* The tick as it would be if it added a permit whatever the channel holds.
tryRefillAlways(n) == n + 1

\* The tick as it would be if the timer goroutine never sent.
tryRefillNever(n) == n

\* The select of the timer goroutine: send to p.available, or default.
tryRefill(n) == IF n < RequestBurst THEN n + 1 ELSE n

\* go p.fetch as it would be if a fetch started by get went to FindGateway
\* without the receive from p.available.
spawnRefreshUnlimited(fs, n, gatewayID, by) ==
  [fs EXCEPT ![n + 1] = [pc |-> IF by = "get" THEN "lookup" ELSE "acquire",
                         id |-> gatewayID, by |-> by]]

\* go p.fetch(gatewayID), started by HandleConnect or by get: the next
\* goroutine starts at the channel receive.
spawn(fs, n, gatewayID, by) ==
  [fs EXCEPT ![n + 1] = [pc |-> "acquire", id |-> gatewayID, by |-> by]]

\* An entry's age, time.Since(lastUpdated), is kept up to MaxAge: get compares
\* it with p.expire only.
MaxAge(exp) == exp + 1

\* The clock advances by one step: every entry is one step older.
older(inf, exp) ==
  [id \in Ids |-> IF inf[id].exists /\ inf[id].age < MaxAge(exp)
                  THEN [inf[id] EXCEPT !.age = @ + 1] ELSE inf[id]]

\* ------------------------------------------------------------ messages
\* Uplink messages: gateway metadata that has no Gps, and an empty trace.
MsgGps == [Latitude |-> 7, Longitude |-> 8, Altitude |-> 9]
UplinkMsg(gps) == [Gps |-> gps, Trace |-> <<>>]
UplinkMsgs == {UplinkMsg(Nil)}

StatusMsg(gps, fp, platform, descr) ==
  [Gps |-> gps, FrequencyPlan |-> fp, Platform |-> platform, Description |-> descr]
StatusMsgs == {StatusMsg(Nil, "", <<>>, "")}

Event(name, err) == [event |-> name, error |-> err]

\* HandleUplink as it would be if it returned after recording the error.
uplinkStopOnErr(msg, gtw, err) ==
  IF err # NoErr
  THEN [Gps |-> msg.Gps,
        Trace |-> Append(msg.Trace, Event("unable to get gateway info", err))]
  ELSE IF msg.Gps = Nil /\ gtw.AntennaLocation # Nil
  THEN [Gps |-> Ptr(GPSMetadata(Deref(gtw.AntennaLocation))),
        Trace |-> Append(msg.Trace, Event("injecting gateway location", NoErr))]
  ELSE [Gps |-> msg.Gps, Trace |-> msg.Trace]

\* The body of HandleUplink after get returned (info, err).
uplink(msg, gtw, err) ==
  LET trace == IF err # NoErr
               THEN Append(msg.Trace, Event("unable to get gateway info", err))
               ELSE msg.Trace
  IN  IF msg.Gps = Nil /\ gtw.AntennaLocation # Nil
      THEN [Gps |-> Ptr(GPSMetadata(Deref(gtw.AntennaLocation))),
            Trace |-> Append(trace, Event("injecting gateway location", NoErr))]
      ELSE [Gps |-> msg.Gps, Trace |-> trace]

\* The platform string HandleStatus builds from Brand and Model.
platform(gtw) ==
  Join((IF gtw.Brand # Nil THEN <<Deref(gtw.Brand)>> ELSE <<>>) \o
       (IF gtw.Model # Nil THEN <<Deref(gtw.Model)>> ELSE <<>>), <<" ">>)

\* HandleStatus as it would be if the record's brand and model replaced the
\* platform of the message.
statusOverwrite(msg, gtw) ==
  [Gps |-> IF msg.Gps = Nil /\ gtw.AntennaLocation # Nil
           THEN Ptr(GPSMetadata(Deref(gtw.AntennaLocation))) ELSE msg.Gps,
   FrequencyPlan |-> IF msg.FrequencyPlan = "" /\ gtw.FrequencyPlan # ""
                     THEN gtw.FrequencyPlan ELSE msg.FrequencyPlan,
   Platform |-> IF gtw.Brand # Nil \/ gtw.Model # Nil
                THEN platform(gtw) ELSE msg.Platform,
   Description |-> IF msg.Description = "" /\ gtw.Description # Nil
                   THEN Deref(gtw.Description) ELSE msg.Description]

\* The body of HandleStatus after get returned info.
status(msg, gtw) ==
  [Gps |-> IF msg.Gps = Nil /\ gtw.AntennaLocation # Nil
           THEN Ptr(GPSMetadata(Deref(gtw.AntennaLocation))) ELSE msg.Gps,
   FrequencyPlan |-> IF msg.FrequencyPlan = "" /\ gtw.FrequencyPlan # ""
                     THEN gtw.FrequencyPlan ELSE msg.FrequencyPlan,
   Platform |-> IF msg.Platform = <<>> THEN platform(gtw) ELSE msg.Platform,
   Description |-> IF msg.Description = "" /\ gtw.Description # Nil
                   THEN Deref(gtw.Description) ELSE msg.Description]

\* No hook call: the value of last after a step of a goroutine or of the clock.
NoLast == [hook |-> "none", id |-> "gw1", in |-> <<>>, out |-> <<>>,
           gateway |-> ZeroGateway, err |-> NoErr, fetch |-> FALSE, ret |-> NoErr]

\* ------------------------------------------------------------ behaviour
\* p.mu is unlocked and no operation is under way.
NoLocking ==
  /\ mu = NoHolder
  /\ calls = [c \in Callers |-> IdleCall]
  /\ ret = [f \in Slots |-> NoResult]
  /\ newer = [f \in Slots |-> {}]
  /\ hStale = NoStale

\* NewPublic, then optionally WithExpire(ExpireD).
Init ==
  /\ info = [id \in Ids |-> NoEntry]
  /\ available = RequestBurst
  /\ expire \in {0, ExpireD}
  /\ fetches = [f \in Slots |-> IdleFetch]
  /\ nfetch = 0
  /\ unsets = [id \in Ids |-> 0]
  /\ refills = 0
  /\ ndisc = 0
  /\ last = NoLast
  /\ hDisc = [id \in Ids |-> FALSE]
  /\ hRemoved = [id \in Ids |-> FALSE]
  /\ hAttempt = [id \in Ids |-> FALSE]
  /\ NoLocking

\* HandleConnect: starts the goroutine that calls fetch, returns nil.
HandleConnect(id) ==
  /\ nfetch < MaxFetch
  /\ fetches' = spawn(fetches, nfetch, id, "connect")
  /\ nfetch' = nfetch + 1
  /\ last' = [NoLast EXCEPT !.hook = "connect", !.id = id]
  /\ hDisc' = [hDisc EXCEPT ![id] = FALSE]
  /\ hRemoved' = [hRemoved EXCEPT ![id] = FALSE]
  /\ UNCHANGED lockVars
  /\ UNCHANGED <<info, available, expire, unsets, refills, ndisc, hAttempt>>

\* HandleDisconnect: starts the goroutine that calls unset, returns nil.
HandleDisconnect(id) ==
  /\ ndisc < MaxDisc
  /\ ndisc' = ndisc + 1
  /\ unsets' = [unsets EXCEPT ![id] = @ + 1]
  /\ last' = [NoLast EXCEPT !.hook = "disconnect", !.id = id]
  /\ hDisc' = [hDisc EXCEPT ![id] = info[id].gateway.AntennaLocation # Nil]
  /\ UNCHANGED lockVars
  /\ UNCHANGED <<info, available, expire, fetches, nfetch, refills, hRemoved, hAttempt>>

\* The goroutine of HandleDisconnect runs unset.
Unset(id) ==
  /\ unsets[id] > 0
  /\ unsets' = [unsets EXCEPT ![id] = @ - 1]
  /\ info' = unset(info, id)
  /\ last' = NoLast
  /\ hRemoved' = [hRemoved EXCEPT ![id] = TRUE]
  /\ hAttempt' = [hAttempt EXCEPT ![id] = FALSE]
  /\ UNCHANGED lockVars
  /\ UNCHANGED <<available, expire, fetches, nfetch, refills, ndisc, hDisc>>

\* HandleUplink: get, then the trace event and the location.
HandleUplink(id, msg) ==
  LET r == get(info, id, expire) IN
  /\ r.fetch => nfetch < MaxFetch
  /\ info' = r.info
  /\ fetches' = IF r.fetch THEN spawn(fetches, nfetch, id, "get") ELSE fetches
  /\ nfetch' = IF r.fetch THEN nfetch + 1 ELSE nfetch
  /\ last' = [hook |-> "uplink", id |-> id, in |-> msg,
              out |-> uplink(msg, r.gateway, r.err),
              gateway |-> r.gateway, err |-> r.err, fetch |-> r.fetch, ret |-> NoErr]
  /\ UNCHANGED lockVars
  /\ UNCHANGED <<available, expire, unsets, refills, ndisc, hDisc, hRemoved, hAttempt>>

\* HandleStatus: get, then the four fields.
HandleStatus(id, msg) ==
  LET r == get(info, id, expire) IN
  /\ r.fetch => nfetch < MaxFetch
  /\ info' = r.info
  /\ fetches' = IF r.fetch THEN spawn(fetches, nfetch, id, "get") ELSE fetches
  /\ nfetch' = IF r.fetch THEN nfetch + 1 ELSE nfetch
  /\ last' = [hook |-> "status", id |-> id, in |-> msg,
              out |-> status(msg, r.gateway),
              gateway |-> r.gateway, err |-> r.err, fetch |-> r.fetch, ret |-> NoErr]
  /\ UNCHANGED lockVars
  /\ UNCHANGED <<available, expire, unsets, refills, ndisc, hDisc, hRemoved, hAttempt>>

\* The first step of fetch as it would be without the receive from p.available.
FetchAcquireNoPermit(f) ==
  /\ fetches[f].pc = "acquire"
  /\ fetches' = [fetches EXCEPT ![f].pc = "lookup"]
  /\ last' = NoLast
  /\ UNCHANGED lockVars
  /\ UNCHANGED <<info, available, expire, nfetch, unsets, refills, ndisc, hDisc, hRemoved, hAttempt>>

\* fetch, first step: <-p.available
FetchAcquire(f) ==
  /\ fetches[f].pc = "acquire"
  /\ available > 0
  /\ available' = available - 1
  /\ fetches' = [fetches EXCEPT ![f].pc = "lookup"]
  /\ last' = NoLast
  /\ UNCHANGED lockVars
  /\ UNCHANGED <<info, expire, nfetch, unsets, refills, ndisc, hDisc, hRemoved, hAttempt>>

\* fetch, the rest: p.account.FindGateway returns res, which setErr or set
\* stores, and the goroutine ends.  The return touches nothing shared, so it is
\* taken together with the store write that follows it.
FetchStoreWith(f, res) ==
  /\ fetches[f].pc = "lookup"
  /\ info' = fetchStore(info, fetches[f].id, res)
  /\ fetches' = [fetches EXCEPT ![f] = [IdleFetch EXCEPT !.pc = "done"]]
  /\ last' = NoLast
  /\ hAttempt' = [hAttempt EXCEPT ![fetches[f].id] = TRUE]
  /\ UNCHANGED lockVars
  /\ UNCHANGED <<available, expire, nfetch, unsets, refills, ndisc, hDisc, hRemoved>>

FetchStore(f) == \E res \in Results : FetchStoreWith(f, res)

\* One tick of time.Tick(RequestInterval) in the goroutine of NewPublic.
RefillTick ==
  /\ available < RequestBurst => refills < MaxRefill
  /\ available' = tryRefill(available)
  /\ refills' = IF available' # available THEN refills + 1 ELSE refills
  /\ last' = NoLast
  /\ UNCHANGED lockVars
  /\ UNCHANGED <<info, expire, fetches, nfetch, unsets, ndisc, hDisc, hRemoved, hAttempt>>

\* Time passes.
Advance ==
  /\ info' = older(info, expire)
  /\ last' = NoLast
  /\ UNCHANGED lockVars
  /\ UNCHANGED <<available, expire, fetches, nfetch, unsets, refills, ndisc, hDisc, hRemoved, hAttempt>>

Next ==
  \/ \E id \in Ids : HandleConnect(id)
  \/ \E id \in Ids : HandleDisconnect(id)
  \/ \E id \in Ids : Unset(id)
  \/ \E id \in Ids, msg \in UplinkMsgs : HandleUplink(id, msg)
  \/ \E id \in Ids, msg \in StatusMsgs : HandleStatus(id, msg)
  \/ \E f \in Slots : FetchAcquire(f)
  \/ \E f \in Slots : FetchStore(f)
  \/ RefillTick
  \/ Advance

Spec == Init /\ [][Next]_vars

\* ------------------------------------------------------------ fairness
\* The timer keeps ticking, FindGateway returns, and a goroutine that waits in
\* the receive from p.available is not passed over for ever: the Go runtime
\* serves the receivers blocked on a channel in the order they arrived.
Fairness ==
  /\ WF_vars(RefillTick)
  /\ \A f \in Slots : SF_vars(FetchAcquire(f))
  /\ \A f \in Slots : WF_vars(FetchStore(f))

\* The steps that start fetches, the steps of the fetches, the timer and the
\* clock.
NextLive ==
  \/ \E id \in Ids : HandleConnect(id)
  \/ \E id \in Ids, msg \in UplinkMsgs : HandleUplink(id, msg)
  \/ \E f \in Slots : FetchAcquire(f)
  \/ \E f \in Slots : FetchStore(f)
  \/ RefillTick
  \/ Advance

SpecLive == Init /\ [][NextLive]_vars /\ Fairness

\* ------------------------------------------------------------ enrichment
\* The hooks on every shape of record and message: each optional attribute of
\* the record absent, present and empty, or present with a value; each field
\* of the message unset or set.
Brands == {Nil, Ptr(<<>>), Ptr(<<"B">>)}
Models == {Nil, Ptr(<<>>), Ptr(<<"M">>)}
AllGateways ==
  {Gateway(loc, fp, brand, model, descr) :
     loc \in {Nil, Ptr(Loc123)}, fp \in {"", "EU_863_870"},
     brand \in Brands, model \in Models, descr \in {Nil, Ptr(""), Ptr("descr")}}

\* What p.info can hold for a gateway: nothing, a record, an error with the
\* zero record, or an error beside a record that an earlier fetch stored.
AllEntries ==
  {NoEntry} \cup {Entry(e, g) : e \in {NoErr} \cup Errs, g \in AllGateways}

AllUplinkMsgs == {UplinkMsg(gps) : gps \in {Nil, Ptr(MsgGps)}}
AllStatusMsgs ==
  {StatusMsg(gps, fp, pf, descr) :
     gps \in {Nil, Ptr(MsgGps)}, fp \in {"", "US_902_928"},
     pf \in {<<>>, <<"X">>}, descr \in {"", "own"}}

\* The number of fetches that have written when p.info holds entry e: one for
\* a record or for a first failure, two for a failure beside a kept record.
WritesFor(e) ==
  IF ~e.exists THEN 0
  ELSE IF e.err # NoErr /\ e.gateway # ZeroGateway THEN 2 ELSE 1

\* The middleware after the fetches of gateway gw1 have stored entry e.
InitEnrich ==
  \E e \in AllEntries :
    /\ info = [id \in Ids |-> IF id = "gw1" THEN e ELSE NoEntry]
    /\ nfetch = WritesFor(e)
    /\ fetches = [f \in Slots |-> IF f <= WritesFor(e)
                                  THEN [IdleFetch EXCEPT !.pc = "done"] ELSE IdleFetch]
    /\ available = RequestBurst - WritesFor(e)
    /\ expire \in {0, ExpireD}
    /\ unsets = [id \in Ids |-> 0]
    /\ refills = 0
    /\ ndisc = 0
    /\ last = NoLast
    /\ hDisc = [id \in Ids |-> FALSE]
    /\ hRemoved = [id \in Ids |-> FALSE]
    /\ hAttempt = [id \in Ids |-> id = "gw1" /\ e.exists]
    /\ NoLocking

NextEnrich ==
  \/ \E id \in Ids, msg \in AllUplinkMsgs : HandleUplink(id, msg)
  \/ \E id \in Ids, msg \in AllStatusMsgs : HandleStatus(id, msg)

SpecEnrich == InitEnrich /\ [][NextEnrich]_vars

\* ------------------------------------------------------------ locking
\* The same operations with p.mu.Lock() and the deferred p.mu.Unlock() as
\* steps of their own.  NewPublic without WithExpire: p.expire is zero.
InitLock == Init /\ expire = 0

\* HandleUplink up to p.mu.Lock() in get.
UplinkCall(c, id, msg) ==
  /\ calls[c].pc = "idle"
  /\ calls' = [calls EXCEPT ![c] = [pc |-> "lock", hook |-> "uplink", id |-> id, in |-> msg]]
  /\ last' = NoLast
  /\ hStale' = NoStale
  /\ UNCHANGED <<info, available, expire, fetches, nfetch, unsets, refills, ndisc,
                 hDisc, hRemoved, hAttempt, mu, ret, newer>>

\* HandleStatus up to p.mu.Lock() in get.
StatusCall(c, id, msg) ==
  /\ calls[c].pc = "idle"
  /\ calls' = [calls EXCEPT ![c] = [pc |-> "lock", hook |-> "status", id |-> id, in |-> msg]]
  /\ last' = NoLast
  /\ hStale' = NoStale
  /\ UNCHANGED <<info, available, expire, fetches, nfetch, unsets, refills, ndisc,
                 hDisc, hRemoved, hAttempt, mu, ret, newer>>

\* get: p.mu.Lock() returns.
GetLock(c) ==
  /\ calls[c].pc = "lock"
  /\ mu = NoHolder
  /\ mu' = Holder("get", c, calls[c].id)
  /\ calls' = [calls EXCEPT ![c].pc = "held"]
  /\ last' = NoLast
  /\ hStale' = NoStale
  /\ UNCHANGED <<info, available, expire, fetches, nfetch, unsets, refills, ndisc,
                 hDisc, hRemoved, hAttempt, ret, newer>>

\* get: the body and the deferred p.mu.Unlock(); then the hook works on the
\* message and returns nil.
GetUnlock(c) ==
  LET id == calls[c].id
      r == get(info, id, expire)
  IN
  /\ calls[c].pc = "held"
  /\ r.fetch => nfetch < MaxFetch
  /\ info' = r.info
  /\ fetches' = IF r.fetch THEN spawn(fetches, nfetch, id, "get") ELSE fetches
  /\ nfetch' = IF r.fetch THEN nfetch + 1 ELSE nfetch
  /\ mu' = NoHolder
  /\ calls' = [calls EXCEPT ![c] = IdleCall]
  /\ last' = [hook |-> calls[c].hook, id |-> id, in |-> calls[c].in,
              out |-> IF calls[c].hook = "uplink"
                      THEN uplink(calls[c].in, r.gateway, r.err)
                      ELSE status(calls[c].in, r.gateway),
              gateway |-> r.gateway, err |-> r.err, fetch |-> r.fetch, ret |-> NoErr]
  /\ hStale' = NoStale
  /\ UNCHANGED <<available, expire, unsets, refills, ndisc, hDisc, hRemoved, hAttempt,
                 ret, newer>>

\* unset: p.mu.Lock() returns.
UnsetLock(id) ==
  /\ unsets[id] > 0
  /\ mu = NoHolder
  /\ mu' = Holder("unset", 0, id)
  /\ last' = NoLast
  /\ hStale' = NoStale
  /\ UNCHANGED <<info, available, expire, fetches, nfetch, unsets, refills, ndisc,
                 hDisc, hRemoved, hAttempt, calls, ret, newer>>

\* unset: delete and the deferred p.mu.Unlock(); the goroutine ends.
UnsetUnlock(id) ==
  /\ mu = Holder("unset", 0, id)
  /\ unsets' = [unsets EXCEPT ![id] = @ - 1]
  /\ info' = unset(info, id)
  /\ mu' = NoHolder
  /\ last' = NoLast
  /\ hRemoved' = [hRemoved EXCEPT ![id] = TRUE]
  /\ hAttempt' = [hAttempt EXCEPT ![id] = FALSE]
  /\ hStale' = NoStale
  /\ UNCHANGED <<available, expire, fetches, nfetch, refills, ndisc, hDisc, calls, ret, newer>>

\* fetch: p.account.FindGateway returns res.
FetchReturnWith(f, res) ==
  /\ fetches[f].pc = "lookup"
  /\ fetches' = [fetches EXCEPT ![f].pc = "lock"]
  /\ ret' = [ret EXCEPT ![f] = res]
  /\ newer' = [g \in Slots |->
                IF g # f /\ fetches[g].pc \in {"lock", "held"} /\ fetches[g].id = fetches[f].id
                THEN newer[g] \cup {f} ELSE newer[g]]
  /\ last' = NoLast
  /\ hStale' = NoStale
  /\ UNCHANGED <<info, available, expire, nfetch, unsets, refills, ndisc,
                 hDisc, hRemoved, hAttempt, mu, calls>>

FetchReturn(f) == \E res \in Results : FetchReturnWith(f, res)

\* fetch: p.mu.Lock() in setErr or set returns.
FetchLock(f) ==
  /\ fetches[f].pc = "lock"
  /\ mu = NoHolder
  /\ mu' = Holder("fetch", f, fetches[f].id)
  /\ fetches' = [fetches EXCEPT ![f].pc = "held"]
  /\ last' = NoLast
  /\ hStale' = NoStale
  /\ UNCHANGED <<info, available, expire, nfetch, unsets, refills, ndisc,
                 hDisc, hRemoved, hAttempt, calls, ret, newer>>

\* The fetches that have written among those whose lookup returned after
\* that of f.
WroteFirst(f) == {g \in newer[f] : fetches[g].pc = "done"}

\* The end of fetch as it would be without the deferred p.mu.Unlock().
FetchUnlockKeepLock(f) ==
  /\ fetches[f].pc = "held"
  /\ info' = fetchStore(info, fetches[f].id, ret[f])
  /\ fetches' = [fetches EXCEPT ![f] = [IdleFetch EXCEPT !.pc = "done"]]
  /\ ret' = [ret EXCEPT ![f] = NoResult]
  /\ newer' = [newer EXCEPT ![f] = {}]
  /\ last' = NoLast
  /\ hAttempt' = [hAttempt EXCEPT ![fetches[f].id] = TRUE]
  /\ hStale' = IF WroteFirst(f) # {}
               THEN [id |-> fetches[f].id, before |-> info[fetches[f].id]] ELSE NoStale
  /\ UNCHANGED <<available, expire, nfetch, unsets, refills, ndisc, hDisc, hRemoved, mu, calls>>

\* The end of fetch as it would be if setErr and set left the entry alone
\* when a lookup that returned later has already been stored.
FetchUnlockRejectStale(f) ==
  /\ fetches[f].pc = "held"
  /\ info' = IF WroteFirst(f) # {} THEN info ELSE fetchStore(info, fetches[f].id, ret[f])
  /\ fetches' = [fetches EXCEPT ![f] = [IdleFetch EXCEPT !.pc = "done"]]
  /\ ret' = [ret EXCEPT ![f] = NoResult]
  /\ newer' = [newer EXCEPT ![f] = {}]
  /\ mu' = NoHolder
  /\ last' = NoLast
  /\ hAttempt' = [hAttempt EXCEPT ![fetches[f].id] = TRUE]
  /\ hStale' = IF WroteFirst(f) # {}
               THEN [id |-> fetches[f].id, before |-> info[fetches[f].id]] ELSE NoStale
  /\ UNCHANGED <<available, expire, nfetch, unsets, refills, ndisc, hDisc, hRemoved, calls>>

\* fetch: the body of setErr or set and the deferred p.mu.Unlock(); the
\* goroutine ends.
FetchUnlock(f) ==
  /\ fetches[f].pc = "held"
  /\ info' = fetchStore(info, fetches[f].id, ret[f])
  /\ fetches' = [fetches EXCEPT ![f] = [IdleFetch EXCEPT !.pc = "done"]]
  /\ ret' = [ret EXCEPT ![f] = NoResult]
  /\ newer' = [newer EXCEPT ![f] = {}]
  /\ mu' = NoHolder
  /\ last' = NoLast
  /\ hAttempt' = [hAttempt EXCEPT ![fetches[f].id] = TRUE]
  /\ hStale' = IF WroteFirst(f) # {}
               THEN [id |-> fetches[f].id, before |-> info[fetches[f].id]] ELSE NoStale
  /\ UNCHANGED <<available, expire, nfetch, unsets, refills, ndisc, hDisc, hRemoved, calls>>

NextLock ==
  \/ \E id \in Ids : HandleConnect(id)
  \/ \E id \in Ids : HandleDisconnect(id)
  \/ \E id \in Ids : UnsetLock(id)
  \/ \E id \in Ids : UnsetUnlock(id)
  \/ \E c \in Callers, id \in Ids, msg \in UplinkMsgs : UplinkCall(c, id, msg)
  \/ \E c \in Callers, id \in Ids, msg \in StatusMsgs : StatusCall(c, id, msg)
  \/ \E c \in Callers : GetLock(c)
  \/ \E c \in Callers : GetUnlock(c)
  \/ \E f \in Slots : FetchAcquire(f)
  \/ \E f \in Slots : FetchReturn(f)
  \/ \E f \in Slots : FetchLock(f)
  \/ \E f \in Slots : FetchUnlock(f)

SpecLock == InitLock /\ [][NextLock]_vars

\* ------------------------------------------------------------ properties
\* What get(id) returns in the current state: the record and the error.
Served(inf, id) ==
  <<get(inf, id, expire).gateway, get(inf, id, expire).err>>

Failures == {res \in Results : res.err # NoErr}
Successes == {res \in Results : res.err = NoErr}

\* C1: when a fetch of id fails with error e while p.info holds an entry for
\* id, the entry keeps its record: only the error and the timestamp change,
\* and get(id) then returns the kept record together with e.
C1_KeepLastGoodRecord ==
  [][\A f \in Slots, res \in Failures :
       (FetchStoreWith(f, res) /\ info[fetches[f].id].exists) =>
          LET id == fetches[f].id IN
          /\ info'[id] = [info[id] EXCEPT !.age = 0, !.err = res.err]
          /\ info'[id].gateway = info[id].gateway
          /\ Served(info', id) = <<info[id].gateway, res.err>>]_vars

\* A record written by a successful fetch is served together with the error of
\* a later failed fetch.
C1_Witness ==
  \E id \in Ids :
    /\ info[id].exists /\ info[id].gateway \in GatewaySet /\ info[id].err \in Errs
    /\ Served(info, id) = <<info[id].gateway, info[id].err>>

\* The fetch goroutines of id that get started and that have not ended.
Refreshing(id) ==
  {f \in Slots : fetches[f].pc \in {"acquire", "lookup"} /\ fetches[f].id = id
                 /\ fetches[f].by = "get"}

\* C2: at most one fetch started by get is outstanding for a gateway: no get
\* starts another one while the fetch of an earlier get has not completed,
\* however long that fetch waits.
C2_OneRefreshOutstanding ==
  \A id \in Ids : Cardinality(Refreshing(id)) <= 1

\* C3: once unset(id) has run and no HandleConnect(id) was issued since, get(id)
\* returns the empty record and no error and p.info has no entry for id, also
\* when a fetch of id was in flight while unset ran.
C3_RemovalIsFinal ==
  \A id \in Ids :
    hRemoved[id] => (~info[id].exists /\ Served(info, id) = <<ZeroGateway, NoErr>>)

\* C4: HandleUplink of a message without location, called after
\* HandleDisconnect returned for a gateway whose fetched record has a location,
\* leaves the location unset.
C4_DisconnectThenUplink ==
  (last.hook = "uplink" /\ hDisc[last.id] /\ last.in.Gps = Nil) => last.out.Gps = Nil

\* The fetch goroutines that got past the receive from p.available.
Started == {f \in Slots : fetches[f].pc \in {"lookup", "done"}}
\* The fetch goroutines waiting in the receive from p.available.
Blocked == {f \in Slots : fetches[f].pc = "acquire"}

\* C5: while no tick has put a permit back, at most RequestBurst fetches are
\* past the receive from p.available, and once RequestBurst of them are, the
\* channel is empty: every further fetch waits in the receive.
C5_BurstBound ==
  refills = 0 =>
    /\ Cardinality(Started) <= RequestBurst
    /\ Cardinality(Started) = RequestBurst =>
         (available = 0 /\ \A f \in Blocked : ~ENABLED FetchAcquire(f))

\* RequestBurst fetches are at the lookup or past it, one more waits in the
\* receive, and no tick has put a permit back.
C5_Witness ==
  /\ refills = 0
  /\ Cardinality(Started) = RequestBurst
  /\ Blocked # {}

\* C6: p.available holds RequestBurst permits at the start and between 0 and
\* RequestBurst ever after; a tick adds exactly one permit when fewer than
\* RequestBurst are there, and leaves a full channel as it is, in a step that
\* is enabled: the send does not block.
C6_PermitCount ==
  /\ available = RequestBurst
  /\ [](available \in 0..RequestBurst)
  /\ [](available = RequestBurst => ENABLED RefillTick)
  /\ [][RefillTick =>
          available' = IF available < RequestBurst THEN available + 1 ELSE available]_vars

\* A tick has put a permit back and the channel is full again: the next tick
\* is the one that is dropped.
C6_Witness == refills > 0 /\ available = RequestBurst

\* C7: p.info has an entry for id exactly when a fetch of id has stored its
\* outcome and unset(id) has not run since.
C7_EntryExists ==
  \A id \in Ids : info[id].exists <=> hAttempt[id]

\* One gateway's entry was removed after a fetch had stored it, while the
\* other gateway's entry is there.
C7_Witness ==
  \E a, b \in Ids :
    /\ hRemoved[a] /\ ~info[a].exists /\ ~hAttempt[a]
    /\ info[b].exists /\ hAttempt[b]

\* The steps in which a hook calls get(id).
GetStep(id) ==
  \/ \E msg \in UplinkMsgs : HandleUplink(id, msg)
  \/ \E msg \in StatusMsgs : HandleStatus(id, msg)

\* The steps of get(id) that find the entry expired.
GetExpired(id) ==
  /\ info[id].exists /\ expire # 0 /\ info[id].age > expire
  /\ GetStep(id)

\* A record stored by a successful fetch is served and no later get found it
\* expired: an expired get starts a fetch, which is outstanding or has stored.
ServingSuccess(id) ==
  info[id].exists /\ info[id].err = NoErr /\ Refreshing(id) = {}

\* C8 as stated: from the successful fetch on, get(id) returns the record and
\* no error until unset(id) runs or a get finds the entry expired.
C8_ServedUntilExpiryOrRemoval ==
  [][\A id \in Ids :
       (ServingSuccess(id) /\ ~Unset(id) /\ ~GetExpired(id)) =>
          Served(info', id) = <<info[id].gateway, NoErr>>]_vars

\* C8 amended: a successful fetch replaces the entry, error included, and
\* get(id) then returns the record and no error until unset(id) runs or
\* another fetch of id stores its outcome; a get that finds the entry expired
\* still returns them.
C8_ServedUntilStoreOrRemoval ==
  [][\A id \in Ids :
       /\ \A f \in Slots, res \in Successes :
            (FetchStoreWith(f, res) /\ fetches[f].id = id) =>
               /\ info'[id] = Entry(NoErr, res.gateway)
               /\ Served(info', id) = <<res.gateway, NoErr>>
       /\ (info[id].exists /\ info[id].err = NoErr /\ ~Unset(id)
           /\ ~(\E f \in Slots : FetchStore(f) /\ fetches[f].id = id)) =>
             /\ Served(info', id) = <<info[id].gateway, NoErr>>
             /\ (last'.hook \in {"uplink", "status"} /\ last'.id = id) =>
                  (last'.gateway = info[id].gateway /\ last'.err = NoErr)]_vars

\* A get has just returned the record of a successful fetch, with no error,
\* from an entry that it found expired.
C8_Witness ==
  /\ last.hook \in {"uplink", "status"}
  /\ last.fetch
  /\ last.gateway \in GatewaySet /\ last.err = NoErr
  /\ Served(info, last.id) = <<last.gateway, NoErr>>

\* C9: a get of a gateway that has no entry returns the empty record and no
\* error and changes nothing: no entry, no permit, no fetch goroutine.
C9_MissIsPureRead ==
  [][\A id \in Ids :
       (GetStep(id) /\ ~info[id].exists) =>
          /\ last'.gateway = ZeroGateway /\ last'.err = NoErr /\ ~last'.fetch
          /\ info' = info
          /\ available' = available
          /\ fetches' = fetches /\ nfetch' = nfetch]_vars

\* A hook has just read a gateway that has no entry, while fetches are running.
C9_Witness ==
  /\ last.hook \in {"uplink", "status"}
  /\ ~info[last.id].exists
  /\ last.gateway = ZeroGateway /\ last.err = NoErr
  /\ nfetch > 0

\* C10: when a fetch of id fails with error e while p.info has no entry for
\* id, it creates the entry with the zero record and e, which get(id) returns.
C10_FirstFailure ==
  [][\A f \in Slots, res \in Failures :
       (FetchStoreWith(f, res) /\ ~info[fetches[f].id].exists) =>
          LET id == fetches[f].id IN
          /\ info'[id] = Entry(res.err, ZeroGateway)
          /\ Served(info', id) = <<ZeroGateway, res.err>>]_vars

\* An entry that holds an error and the zero record.
C10_Witness ==
  \E id \in Ids :
    /\ info[id].exists /\ info[id].gateway = ZeroGateway /\ info[id].err \in Errs
    /\ Served(info, id) = <<ZeroGateway, info[id].err>>

\* The fetch goroutines that have been started.
Dispatched == {f \in Slots : fetches[f].pc # "idle"}

\* C11: with p.expire zero no get starts a fetch or changes an entry, whatever
\* the entry's age: every fetch goroutine is one that HandleConnect started,
\* and each HandleConnect starts exactly one.
C11_NoExpiryNoRefresh ==
  /\ [](expire = 0 => \A f \in Slots : fetches[f].by # "get")
  /\ [][expire = 0 =>
          /\ \A id \in Ids :
               GetStep(id) =>
                 (info' = info /\ fetches' = fetches /\ nfetch' = nfetch /\ ~last'.fetch)
          /\ \A id \in Ids :
               HandleConnect(id) =>
                 /\ nfetch' = nfetch + 1
                 /\ fetches'[nfetch'] = [pc |-> "acquire", id |-> id, by |-> "connect"]
          /\ (nfetch' # nfetch) => \E id \in Ids : HandleConnect(id)]_vars

\* With p.expire zero a hook has just read an entry that is not fresh, and no
\* fetch was started.
C11_Witness ==
  /\ expire = 0
  /\ last.hook \in {"uplink", "status"}
  /\ info[last.id].exists /\ info[last.id].age > 0
  /\ ~last.fetch /\ Dispatched # {}

\* C12: HandleUplink and HandleStatus only add: every field the message came
\* with (location, frequency plan, platform, description) leaves the hook with
\* the value it had, whatever p.info holds for the gateway.
C12_AdditiveOnly ==
  /\ last.hook = "uplink" =>
       (last.in.Gps # Nil => last.out.Gps = last.in.Gps)
  /\ last.hook = "status" =>
       /\ last.in.Gps # Nil => last.out.Gps = last.in.Gps
       /\ last.in.FrequencyPlan # "" => last.out.FrequencyPlan = last.in.FrequencyPlan
       /\ last.in.Platform # <<>> => last.out.Platform = last.in.Platform
       /\ last.in.Description # "" => last.out.Description = last.in.Description

\* A status message with platform "X" and no location went through
\* HandleStatus while p.info held brand "B" and a location: the location was
\* filled in and the platform is still "X".
C12_Witness ==
  /\ last.hook = "status"
  /\ last.in.Platform = <<"X">> /\ last.gateway.Brand = Ptr(<<"B">>)
  /\ last.out.Platform = <<"X">>
  /\ last.in.Gps = Nil /\ last.out.Gps # Nil

\* The attributes among Brand and Model that are present and not empty.
NonEmptyAttrs(gtw) ==
  (IF gtw.Brand # Nil /\ Deref(gtw.Brand) # <<>> THEN <<Deref(gtw.Brand)>> ELSE <<>>) \o
  (IF gtw.Model # Nil /\ Deref(gtw.Model) # <<>> THEN <<Deref(gtw.Model)>> ELSE <<>>)

\* C13: the platform HandleStatus fills in is the non-empty values among Brand
\* and Model, in that order, joined by one space: it has no leading or
\* trailing space, and it is empty when neither is non-empty.
C13_PlatformString ==
  (last.hook = "status" /\ last.in.Platform = <<>>) =>
    /\ last.out.Platform = Join(NonEmptyAttrs(last.gateway), <<" ">>)
    /\ last.out.Platform # <<>> =>
         /\ Head(last.out.Platform) # " "
         /\ last.out.Platform[Len(last.out.Platform)] # " "

\* The trace events of the last hook call that report a failed lookup.
ErrorEvents ==
  {i \in 1..Len(last.out.Trace) : last.out.Trace[i].event = "unable to get gateway info"}

\* C14: no hook fails and no hook waits.  Whatever the state (lookups failing
\* or pending, p.available empty) each hook can be called and returns nil;
\* HandleUplink adds the "unable to get gateway info" event, carrying the
\* cached error, exactly when get returned an error, and still injects the
\* location of the cached record when the message has none.
C14_HooksNeverFail ==
  /\ last.hook # "none" => last.ret = NoErr
  /\ last.hook = "uplink" =>
       /\ (ErrorEvents # {}) <=> (last.err # NoErr)
       /\ \A i \in ErrorEvents : last.out.Trace[i].error = last.err
       /\ (last.in.Gps = Nil /\ last.gateway.AntennaLocation # Nil) =>
            last.out.Gps = Ptr(GPSMetadata(Deref(last.gateway.AntennaLocation)))
  /\ \A id \in Ids :
       /\ ndisc < MaxDisc => ENABLED HandleDisconnect(id)
       /\ nfetch < MaxFetch =>
            /\ ENABLED HandleConnect(id)
            /\ \A msg \in UplinkMsgs : ENABLED HandleUplink(id, msg)
            /\ \A msg \in StatusMsgs : ENABLED HandleStatus(id, msg)

\* HandleUplink returned with the error event and the location of the kept
\* record while p.available was empty and a fetch was waiting for a permit.
C14_Witness ==
  /\ last.hook = "uplink" /\ last.err \in Errs
  /\ ErrorEvents # {} /\ last.out.Gps # Nil
  /\ available = 0
  /\ \E f \in Slots : fetches[f].pc = "acquire"

\* C16: a fetch takes one permit, then makes one lookup, then writes once.
\* Every started lookup has taken a permit no other lookup took, so the
\* lookups started, for all gateways together, number RequestBurst plus the
\* ticks that added a permit, less the permits still in p.available.
C16_OnePermitOneLookupOneWrite ==
  /\ [](/\ Cardinality(Started) + available = RequestBurst + refills
        /\ Cardinality(Started) <= RequestBurst + refills)
  /\ [][\A f \in Slots :
          /\ (fetches[f].pc = "idle" /\ fetches'[f].pc # "idle") =>
               fetches'[f].pc = "acquire"
          /\ (fetches[f].pc = "acquire" /\ fetches'[f].pc # "acquire") =>
               /\ fetches'[f].pc = "lookup"
               /\ available' = available - 1
               /\ info' = info
          /\ (fetches[f].pc = "lookup" /\ fetches'[f].pc # "lookup") =>
               /\ fetches'[f].pc = "done"
               /\ available' = available
               /\ \E res \in Results : info' = fetchStore(info, fetches[f].id, res)
          /\ fetches[f].pc = "done" => fetches'[f].pc = "done"]_vars

\* Every permit there ever was has been spent on a lookup, for two gateways,
\* one of them started by get.
C16_Witness ==
  /\ refills > 0 /\ available = 0
  /\ Cardinality(Started) = RequestBurst + refills
  /\ \E f \in Slots : fetches[f].pc = "lookup" /\ fetches[f].by = "get"
  /\ \E f \in Slots : fetches[f].pc = "lookup" /\ fetches[f].id # last.id

\* C19: with p.expire = D > 0 an entry that holds an error expires as a
\* record does.  A failed fetch sets lastUpdated to now; a get of an entry
\* that holds an error returns the error and starts a fetch exactly when more
\* than D has passed since lastUpdated, however many fetches failed before;
\* the fetch it starts begins at the receive from p.available.
C19_FailedEntriesExpire ==
  [][expire # 0 =>
       /\ \A f \in Slots, res \in Failures :
            FetchStoreWith(f, res) =>
              /\ info'[fetches[f].id].exists
              /\ info'[fetches[f].id].err = res.err
              /\ info'[fetches[f].id].age = 0
       /\ \A id \in Ids :
            (GetStep(id) /\ info[id].exists /\ info[id].err # NoErr) =>
              /\ last'.err = info[id].err
              /\ last'.fetch <=> (info[id].age > expire)
              /\ last'.fetch =>
                   /\ nfetch' = nfetch + 1
                   /\ fetches'[nfetch'] = [pc |-> "acquire", id |-> id, by |-> "get"]
                   /\ info' = [info EXCEPT ![id].age = 0]
                   /\ available' = available
              /\ ~last'.fetch => (info' = info /\ fetches' = fetches)]_vars

\* The fetch goroutines that have written their outcome.
Done == {f \in Slots : fetches[f].pc = "done"}

\* The second retry for a gateway whose lookups have all failed: two fetches
\* have written, both for this gateway, no record was ever stored, and a get
\* that found the error expired has started another fetch.
C19_Witness ==
  /\ expire # 0
  /\ last.hook \in {"uplink", "status"} /\ last.fetch
  /\ last.err \in Errs /\ last.gateway = ZeroGateway
  /\ Cardinality(Done) = 2 /\ ndisc = 0
  /\ \A id \in Ids \ {last.id} : ~info[id].exists /\ ~hAttempt[id]

\* C20: a store step for one gateway (the write of a fetch, a get with its
\* bump, an unset) leaves the entry of every other gateway as it was: its
\* existence, record, error and lastUpdated.
C20_PerIdIsolation ==
  [][\A a \in Ids :
       (\/ GetStep(a)
        \/ Unset(a)
        \/ \E f \in Slots : fetches[f].id = a /\ FetchStore(f)) =>
         \A b \in Ids \ {a} : info'[b] = info[b]]_vars

\* A get of one gateway found its entry expired and bumped it while the other
\* gateway's entry, a record that is not fresh, stayed as it was.
C20_Witness ==
  /\ last.hook \in {"uplink", "status"} /\ last.fetch
  /\ info[last.id].age = 0
  /\ \E b \in Ids \ {last.id} :
       info[b].exists /\ info[b].age > 0 /\ info[b].err = NoErr

\* The operations that are between p.mu.Lock() and p.mu.Unlock().
InCritical ==
  {Holder("fetch", f, fetches[f].id) : f \in {g \in Slots : fetches[g].pc = "held"}} \cup
  {Holder("get", c, calls[c].id) : c \in {d \in Callers : calls[d].pc = "held"}} \cup
  (IF mu.kind = "unset" THEN {mu} ELSE {})

\* C15: p.mu is held by at most one operation, and never by a fetch that is
\* waiting for a permit or for FindGateway.  The holder's remaining step, and
\* with p.mu free the Lock of every waiting operation, is enabled whatever
\* p.available holds and whatever lookups are pending: get, set, setErr, unset
\* and the hooks complete.
C15_LockNeverWaits ==
  /\ Cardinality(InCritical) <= 1
  /\ InCritical = (IF mu = NoHolder THEN {} ELSE {mu})
  /\ \A f \in Slots :
       fetches[f].pc \in {"acquire", "lookup"} => ~(mu.kind = "fetch" /\ mu.n = f)
  /\ mu.kind = "fetch" => ENABLED FetchUnlock(mu.n)
  /\ mu.kind = "get" => ENABLED GetUnlock(mu.n)
  /\ mu.kind = "unset" => ENABLED UnsetUnlock(mu.id)
  /\ mu = NoHolder =>
       /\ \A f \in Slots : fetches[f].pc = "lock" => ENABLED FetchLock(f)
       /\ \A c \in Callers : calls[c].pc = "lock" => ENABLED GetLock(c)
       /\ \A id \in Ids : unsets[id] > 0 => ENABLED UnsetLock(id)

\* A hook has gone through get and returned while p.available was empty, one
\* fetch was waiting for a permit, one was inside FindGateway and one was
\* waiting for p.mu.
C15_Witness ==
  /\ last.hook \in {"uplink", "status"} /\ last.ret = NoErr
  /\ available = 0
  /\ \E f \in Slots : fetches[f].pc = "acquire"
  /\ \E f \in Slots : fetches[f].pc = "lookup"
  /\ \E f \in Slots : fetches[f].pc = "lock"

\* C17: when two fetches of one gateway are in flight, the one whose lookup
\* returned first can write last, and its write is not rejected: the entry
\* then holds its outcome, with lastUpdated set to now, in place of the
\* outcome of the lookup that returned later.
C17_StaleWriteWins ==
  [][\A f \in Slots :
       (FetchUnlock(f) /\ WroteFirst(f) # {}) =>
         /\ info'[fetches[f].id].exists
         /\ info'[fetches[f].id].age = 0
         /\ info'[fetches[f].id].err = ret[f].err
         /\ ret[f].ok => info'[fetches[f].id].gateway = ret[f].gateway]_vars

\* The record GwA of the lookup that returned later has just been replaced by
\* the record GwB of the lookup that returned first.
C17_Witness ==
  /\ hStale.id \in Ids
  /\ hStale.before.exists /\ hStale.before.err = NoErr /\ hStale.before.gateway = GwA
  /\ info[hStale.id].err = NoErr /\ info[hStale.id].gateway = GwB

\* The timer has stopped: the model's MaxRefill ticks have all put a permit
\* back and the permits are spent.
TicksExhausted == refills = MaxRefill /\ available = 0

\* C18: with the timer ticking, lookups returning and blocked receivers served
\* fairly, every fetch that was started takes a permit and writes its outcome,
\* however many other fetches are pending; a fetch that waits for a permit
\* leaves the wait only by taking one.
C18_FetchCompletes ==
  /\ \A f \in Slots :
       (fetches[f].pc = "acquire") ~> (fetches[f].pc = "done" \/ TicksExhausted)
  /\ [][\A f \in Slots :
          fetches[f].pc = "acquire" => fetches'[f].pc \in {"acquire", "lookup"}]_vars

\* Every fetch that could be started has written, the last of them with a
\* permit that a tick put back after the burst was spent.
C18_Witness ==
  /\ \A f \in Slots : fetches[f].pc = "done"
  /\ refills > 0 /\ refills + RequestBurst = MaxFetch + available

====
